---- MODULE Spec2Model ----
(***************************************************************************)
(* A model of responses/__init__.py: the RequestsMock session (registry    *)
(* of mock responses, call log, activation through mock.patch on           *)
(* requests.adapters.HTTPAdapter.send) and the match-and-respond engine.   *)
(*                                                                         *)
(* Modelling decisions:                                                    *)
(*  - A URL string is the record [host, path, query]; the scheme is always *)
(*    http and all characters are ASCII, so _clean_unicode and parse_url   *)
(*    leave the text alone.  query is the parse_qsl list of <<key, value>> *)
(*    pairs, keys and values being small naturals.                         *)
(*  - A compiled pattern is [kind |-> "re", host |-> h]; it stands for     *)
(*    re.compile("http://h/"), which re.match anchors at the start only:   *)
(*    it matches every url of host h, whatever its path and query.         *)
(*  - A body matcher is urlencoded_params_matcher(params) over canonical   *)
(*    bodies: it is identified with the body it accepts.                   *)
(*  - Every session is built with response_callback=None (the default of   *)
(*    RequestsMock.__init__) and target HTTPAdapter.send.                  *)
(*  - add() always constructs a new Response (call_count 0).               *)
(*  - stop() and __exit__ are taken on a session whose patcher is started; *)
(*    without one, self._patcher.stop() fails inside mock before any       *)
(*    statement of RequestsMock.stop has an effect.                        *)
(*  - A callback is known by what it returns: a tuple, an exception, or a  *)
(*    tuple whose body is an exception.                                    *)
(*  - registered() hands out a reference: `returned` keeps whether it      *)
(*    still refers to the list self._matches is bound to.                  *)
(*  - matches() and json_params_matcher are also applied on their own, to  *)
(*    arguments drawn at the start (SpecPure); the build decides whether   *)
(*    JSONDecodeError is json.decoder.JSONDecodeError or ValueError.       *)
(***************************************************************************)
EXTENDS Integers, Sequences, FiniteSets, TLC

\* ------------------------------------------------------------------ bounds
MaxSpecs == 3
MaxCalls == 2
MaxStarts == 2
MaxPrefixes == 1

\* "mock" is the module's default session (_default_mock), "user" a session
\* the test constructs itself; "real" names _real_send.
Sessions == {"mock", "user"}

\* ------------------------------------------------------------ input values
Methods == {"GET", "POST"}

Lit(h, p, q) == [kind |-> "str", host |-> h, path |-> p, query |-> q]
Re(h) == [kind |-> "re", host |-> h, path |-> "/", query |-> <<>>]

\* _unspecified = object()
Unspecified == "_unspecified"

NoUrl == Lit("", "", <<>>)
NoRequest == [method |-> "", url |-> NoUrl, body |-> "none"]
NoSpec == [method |-> "", url |-> NoUrl, match_querystring |-> FALSE,
           match |-> <<>>, body |-> "", callback |-> "none", call_count |-> 0]

\* ----------------------------------------------------------- pure helpers
\* _ensure_url_default_path: a string url with an empty path gets "/".
EnsureUrlDefaultPath(url) ==
    IF url.kind = "str" /\ url.path = ""
    THEN [url EXCEPT !.path = "/"]
    ELSE url

\* order of sorted() on (key, value) tuples
PairLeq(a, b) == a[1] < b[1] \/ (a[1] = b[1] /\ a[2] <= b[2])

RECURSIVE Insert(_, _)
Insert(x, s) ==
    IF s = <<>> THEN <<x>>
    ELSE IF PairLeq(x, Head(s)) THEN <<x>> \o s
    ELSE <<Head(s)>> \o Insert(x, Tail(s))

RECURSIVE Sorted(_)
Sorted(q) == IF q = <<>> THEN <<>> ELSE Insert(Head(q), Sorted(Tail(q)))

\* a strict match that compares the parse_qsl lists as they come
UrlMatchesStrictUnsorted(url, other) ==
    IF <<url.host, url.path>> # <<other.host, other.path>>
    THEN FALSE
    ELSE url.query = other.query

\* BaseResponse._url_matches_strict
UrlMatchesStrict(url, other) ==
    IF <<url.host, url.path>> # <<other.host, other.path>>
    THEN FALSE
    ELSE Sorted(url.query) = Sorted(other.query)

\* BaseResponse._should_match_querystring
ShouldMatchQuerystring(url, match_querystring_argument) ==
    IF match_querystring_argument # Unspecified
    THEN match_querystring_argument = "True"
    ELSE IF url.kind = "re" THEN FALSE
    ELSE url.query # <<>>

\* BaseResponse._url_matches
UrlMatches(url, other, match_querystring) ==
    IF url.kind = "str"
    THEN IF match_querystring
         THEN UrlMatchesStrict(url, other)
         ELSE <<url.host, url.path>> = <<other.host, other.path>>
    ELSE url.host = other.host

\* urlencoded_params_matcher(params).match
MatcherAccepts(matcher, request_body) == request_body = matcher

\* json_module.loads on the texts the model knows: "null", two objects,
\* and texts that are not JSON (JSONDecodeError)
JsonLoads(text) ==
    IF text = "null" THEN [error |-> "", value |-> "None"]
    ELSE IF text = "{\"a\": 1}" THEN [error |-> "", value |-> "a1"]
    ELSE IF text = "{\"a\": 2}" THEN [error |-> "", value |-> "a2"]
    ELSE [error |-> "JSONDecodeError", value |-> ""]

\* whether `except JSONDecodeError` catches error: JSONDecodeError is
\* json.decoder.JSONDecodeError where that can be imported, and ValueError
\* (which UnicodeDecodeError is too) where it cannot
Caught(error, JSONDecodeError) ==
    IF JSONDecodeError = "ValueError"
    THEN error \in {"JSONDecodeError", "UnicodeDecodeError"}
    ELSE error = "JSONDecodeError"

\* json_params_matcher(params).match(request_body): a request body is None
\* ("NoneType"), a str, or bytes that decode as utf-8 to `text` or do not
JsonParamsMatcher(params, request_body, JSONDecodeError) ==
    LET error ==
            IF request_body.type = "bytes" /\ ~request_body.utf8
            THEN "UnicodeDecodeError"
            ELSE IF request_body.type = "NoneType" THEN ""
            ELSE JsonLoads(request_body.text).error
    IN IF error # ""
       THEN IF Caught(error, JSONDecodeError)
            THEN [outcome |-> "return", error |-> "", result |-> FALSE]
            ELSE [outcome |-> "raise", error |-> error, result |-> ""]
       ELSE [outcome |-> "return", error |-> "",
             result |-> IF request_body.type = "NoneType"
                        THEN params = "None"
                        ELSE params = JsonLoads(request_body.text).value]

\* a _body_matches that lets an empty matcher list fail
BodyMatchesSome(match, request_body) ==
    \E i \in 1..Len(match) : MatcherAccepts(match[i], request_body)

\* BaseResponse._body_matches
RECURSIVE BodyMatches(_, _)
BodyMatches(match, request_body) ==
    IF match = <<>> THEN TRUE
    ELSE IF ~MatcherAccepts(Head(match), request_body) THEN FALSE
    ELSE BodyMatches(Tail(match), request_body)

\* BaseResponse.matches: <<result, reason>>
Matches(spec, request) ==
    IF request.method # spec.method
    THEN <<FALSE, "Method does not match">>
    ELSE IF ~UrlMatches(spec.url, request.url, spec.match_querystring)
    THEN <<FALSE, "URL does not match">>
    ELSE IF ~BodyMatches(spec.match, request.body)
    THEN <<FALSE, "Parameters do not match">>
    ELSE <<TRUE, "">>

\* Response.__init__ / BaseResponse.__init__
NewResponse(method, url, body, match_querystring, match) ==
    [method |-> method,
     url |-> EnsureUrlDefaultPath(url),
     match_querystring |->
         ShouldMatchQuerystring(EnsureUrlDefaultPath(url), match_querystring),
     match |-> match,
     body |-> body,
     callback |-> "none",
     call_count |-> 0]

\* CallbackResponse.__init__: no body, a callback that returns a tuple
\* ("returns_tuple"), an exception ("returns_exc") or a tuple whose body is an
\* exception ("returns_body_exc"); match keeps BaseResponse's default
NewCallbackResponse(method, url, callback, match_querystring) ==
    [method |-> method,
     url |-> EnsureUrlDefaultPath(url),
     match_querystring |->
         ShouldMatchQuerystring(EnsureUrlDefaultPath(url), match_querystring),
     match |-> <<>>,
     body |-> "",
     callback |-> callback,
     call_count |-> 0]

\* the text __eq__ compares: url.pattern of a pattern, the string otherwise
UrlText(url) == <<url.host, url.path, url.query>>

\* BaseResponse.__eq__
Eq(self, other) ==
    IF self.method # other.method THEN FALSE
    ELSE UrlText(self.url) = UrlText(other.url)

\* response in self._matches
Contains(ms, response) == \E i \in 1..Len(ms) : Eq(ms[i], response)

\* self._matches.index(response), 0 for ValueError
RECURSIVE IndexFrom(_, _, _)
IndexFrom(ms, response, i) ==
    IF i > Len(ms) THEN 0
    ELSE IF Eq(ms[i], response) THEN i
    ELSE IndexFrom(ms, response, i + 1)

\* an index() that finds the last equal entry
IndexOfLast(ms, response) ==
    IF ~Contains(ms, response) THEN 0
    ELSE CHOOSE i \in 1..Len(ms) :
             /\ Eq(ms[i], response)
             /\ \A j \in 1..Len(ms) : Eq(ms[j], response) => j <= i

Index(ms, response) == IndexFrom(ms, response, 1)

\* a pop that takes the last entry whatever the index
RemoveLast(s, i) == SubSeq(s, 1, Len(s) - 1)

RemoveAt(s, i) == SubSeq(s, 1, i - 1) \o SubSeq(s, i + 1, Len(s))

\* _find_match that keeps the latest match instead of the first
RECURSIVE FindMatchFromLast(_, _, _, _, _)
FindMatchFromLast(ms, request, i, found, reasons) ==
    IF i > Len(ms)
    THEN [index |-> found, popped |-> FALSE, matches |-> ms,
          match_failed_reasons |-> reasons]
    ELSE IF Matches(ms[i], request)[1]
         THEN FindMatchFromLast(ms, request, i + 1, i, reasons)
         ELSE FindMatchFromLast(ms, request, i + 1, found,
                                Append(reasons, Matches(ms[i], request)[2]))

\* _find_match that reuses the first match and never pops it
RECURSIVE FindMatchFromNoPop(_, _, _, _, _)
FindMatchFromNoPop(ms, request, i, found, reasons) ==
    IF i > Len(ms)
    THEN [index |-> found, popped |-> FALSE, matches |-> ms,
          match_failed_reasons |-> reasons]
    ELSE IF Matches(ms[i], request)[1]
         THEN FindMatchFromNoPop(ms, request, i + 1,
                                 IF found = 0 THEN i ELSE found, reasons)
         ELSE FindMatchFromNoPop(ms, request, i + 1, found,
                                 Append(reasons, Matches(ms[i], request)[2]))

\* _find_match that pops the first match even when it is the only one
RECURSIVE FindMatchFromAlwaysPop(_, _, _, _, _)
FindMatchFromAlwaysPop(ms, request, i, found, reasons) ==
    IF i > Len(ms)
    THEN IF found = 0
         THEN [index |-> 0, popped |-> FALSE, matches |-> ms,
               match_failed_reasons |-> reasons]
         ELSE [index |-> found, popped |-> TRUE,
               matches |-> RemoveAt(ms, found),
               match_failed_reasons |-> reasons]
    ELSE IF Matches(ms[i], request)[1]
         THEN IF found = 0
              THEN FindMatchFromAlwaysPop(ms, request, i + 1, i, reasons)
              ELSE [index |-> found, popped |-> TRUE,
                    matches |-> RemoveAt(ms, found),
                    match_failed_reasons |-> reasons]
         ELSE FindMatchFromAlwaysPop(ms, request, i + 1, found,
                  Append(reasons, Matches(ms[i], request)[2]))

\* RequestsMock._find_match: scan from position i with the first match
\* found so far (0 = None) and the reasons collected so far.
RECURSIVE FindMatchFrom(_, _, _, _, _)
FindMatchFrom(ms, request, i, found, reasons) ==
    IF i > Len(ms)
    THEN [index |-> found, popped |-> FALSE, matches |-> ms,
          match_failed_reasons |-> reasons]
    ELSE IF Matches(ms[i], request)[1]
         THEN IF found = 0
              THEN FindMatchFrom(ms, request, i + 1, i, reasons)
              ELSE [index |-> found, popped |-> TRUE,
                    matches |-> RemoveAt(ms, found),
                    match_failed_reasons |-> reasons]
         ELSE FindMatchFrom(ms, request, i + 1, found,
                            Append(reasons, Matches(ms[i], request)[2]))

FindMatch(ms, request) == FindMatchFrom(ms, request, 1, 0, <<>>)

\* a passthru test that wants the whole url
PrefixIsUrl(p, url) ==
    IF p.kind = "re"
    THEN p.host = url.host
    ELSE <<p.host, p.path, p.query>> = <<url.host, url.path, url.query>>

\* the passthru test of _on_request for one prefix
PrefixCovers(p, url) ==
    IF p.kind = "re"
    THEN p.host = url.host
    ELSE /\ p.host = url.host
         /\ p.path = "" \/ p.path = url.path
         /\ Len(p.query) <= Len(url.query)
         /\ p.query = SubSeq(url.query, 1, Len(p.query))
         /\ p.query # <<>> => p.path = "/"

AnyPassthru(prefixes, url) ==
    \E i \in 1..Len(prefixes) : PrefixCovers(prefixes[i], url)

\* an error message that pairs the specs with the reasons in reverse
ErrorMsgReversed(ms, request, match_failed_reasons) ==
    [kind |-> "ConnectionError",
     method |-> request.method,
     url |-> request.url,
     lines |-> [i \in 1..Len(ms) |->
                   <<ms[i].method, ms[i].url,
                     match_failed_reasons[Len(ms) + 1 - i]>>]]

\* the ConnectionError built by _on_request when nothing matches
ErrorMsg(ms, request, match_failed_reasons) ==
    [kind |-> "ConnectionError",
     method |-> request.method,
     url |-> request.url,
     lines |-> [i \in 1..Len(ms) |->
                   <<ms[i].method, ms[i].url, match_failed_reasons[i]>>]]

\* an exception instance a spec holds or its callback hands back; `lines`
\* tells the instances apart by where they come from
SpecException(source) ==
    [kind |-> "Exception", method |-> "", url |-> NoUrl, lines |-> <<source>>]

HTTPResponse ==
    [kind |-> "Response", method |-> "", url |-> NoUrl, lines |-> <<>>]

\* a get_response that does not look at the body a callback returns
GetResponseOfResult(spec) ==
    IF spec.callback = "none"
    THEN IF spec.body = "exc" THEN SpecException("body") ELSE HTTPResponse
    ELSE IF spec.callback = "returns_exc" THEN SpecException("result")
    ELSE HTTPResponse

\* Response.get_response and CallbackResponse.get_response: what is raised
\* (kind "Exception") or returned (kind "Response")
GetResponse(spec) ==
    IF spec.callback = "none"
    THEN IF spec.body = "exc" THEN SpecException("body") ELSE HTTPResponse
    ELSE IF spec.callback = "returns_exc" THEN SpecException("result")
    ELSE IF spec.callback = "returns_body_exc"
         THEN SpecException("result body")
    ELSE HTTPResponse

NoResponse == [kind |-> "", method |-> "", url |-> NoUrl, lines |-> <<>>]

\* ------------------------------------------------------------------ state
VARIABLES matches, calls, passthru_prefixes, assert_all_requests_are_fired,
          patcher, send, inScope, starts, returned, consumed, last

\* consumed[s] is the call_count total of the specs that _find_match has
\* popped from the registry of s since its last reset: the objects are out
\* of self._matches and keep their counts
vars == <<matches, calls, passthru_prefixes, assert_all_requests_are_fired,
          patcher, send, inScope, starts, returned, consumed, last>>

\* What a caller holds after registered(): `alias` says the object it was
\* given is still the list self._matches is bound to, `at_return` is the
\* list's content when it was returned, `frozen` the content of a list the
\* session no longer refers to.
NoReturned == [held |-> FALSE, alias |-> FALSE, at_return |-> <<>>,
               frozen |-> <<>>]

\* the content of the list object registered() returned, as seen now
SeenThrough(s) ==
    IF returned[s].alias THEN matches[s] ELSE returned[s].frozen

\* self._matches = []: a list the caller holds is left behind as it is
Rebind(s) ==
    IF returned[s].alias
    THEN [returned EXCEPT ![s].alias = FALSE, ![s].frozen = matches[s]]
    ELSE returned

NoPatcher == [has |-> FALSE, started |-> FALSE, temp_original |-> "real"]

NoLast == [op |-> "init", sess |-> "", outcome |-> "return", error |-> "",
           request |-> NoRequest, index |-> 0, popped |-> FALSE,
           spec |-> NoSpec, response |-> NoResponse, not_called |-> <<>>,
           allow_assert |-> FALSE, arg |-> "", result |-> ""]

\* RequestsMock.__init__ for both sessions; _default_mock is built with
\* assert_all_requests_are_fired=False.  send is HTTPAdapter.send: "real" is
\* _real_send, a session's name is that session's unbound_on_send.
Init ==
    /\ matches = [s \in Sessions |-> <<>>]
    /\ calls = [s \in Sessions |-> <<>>]
    /\ passthru_prefixes = [s \in Sessions |-> <<>>]
    /\ assert_all_requests_are_fired \in [Sessions -> BOOLEAN]
    /\ ~assert_all_requests_are_fired["mock"]
    /\ patcher = [s \in Sessions |-> NoPatcher]
    /\ send = "real"
    /\ inScope = [s \in Sessions |-> FALSE]
    /\ starts = [s \in Sessions |-> 0]
    /\ returned = [s \in Sessions |-> NoReturned]
    /\ consumed = [s \in Sessions |-> 0]
    /\ last = NoLast


\* ---------------------------------------------------------------- actions
\* a call list that puts the newest call first
CallListAddFirst(log, request, response) ==
    <<[request |-> request, response |-> response]>> \o log

\* CallList.add
CallListAdd(log, request, response) ==
    Append(log, [request |-> request, response |-> response])

\* RequestsMock.add (method, url, body, match_querystring, match)
Add(s, method, url, body, match_querystring, match) ==
    /\ Len(matches[s]) < MaxSpecs
    /\ matches' = [matches EXCEPT ![s] =
           Append(@, NewResponse(method, url, body, match_querystring, match))]
    /\ last' = [NoLast EXCEPT !.op = "add", !.sess = s,
                              !.arg = match_querystring,
                              !.spec = NewResponse(method, url, body,
                                                   match_querystring, match)]
    /\ UNCHANGED <<calls, passthru_prefixes, assert_all_requests_are_fired,
                   patcher, send, inScope, starts, returned,
                   consumed>>

\* the match_querystring add_callback hands to CallbackResponse when its
\* caller gives none: the parameter's default, False
AddCallbackDefault(match_querystring) ==
    IF match_querystring = Unspecified THEN "False" ELSE match_querystring

\* RequestsMock.add_callback (method, url, callback, match_querystring)
AddCallback(s, method, url, callback, match_querystring) ==
    /\ Len(matches[s]) < MaxSpecs
    /\ LET response == NewCallbackResponse(method, url, callback,
                            AddCallbackDefault(match_querystring))
       IN /\ matches' = [matches EXCEPT ![s] = Append(@, response)]
          /\ last' = [NoLast EXCEPT !.op = "add_callback", !.sess = s,
                                    !.arg = match_querystring,
                                    !.spec = response]
    /\ UNCHANGED <<calls, passthru_prefixes, assert_all_requests_are_fired,
                   patcher, send, inScope, starts, returned,
                   consumed>>

\* a remove() that takes out the first equal entry only
RemoveFirst(ms, response) ==
    IF ~Contains(ms, response) THEN ms
    ELSE RemoveAt(ms, Index(ms, response))

\* while response in self._matches: self._matches.remove(response)
RECURSIVE RemoveAll(_, _)
RemoveAll(ms, response) ==
    IF ~Contains(ms, response) THEN ms
    ELSE RemoveAll(RemoveAt(ms, Index(ms, response)), response)

\* RequestsMock.remove(method, url): the key is BaseResponse(method, url);
\* last.result is the number of entries the loop took out
Remove(s, method, url) ==
    /\ LET response == NewResponse(method, url, "", Unspecified, <<>>)
       IN /\ matches' = [matches EXCEPT ![s] = RemoveAll(@, response)]
          /\ last' = [NoLast EXCEPT !.op = "remove", !.sess = s,
                                    !.arg = url, !.spec = response,
                                    !.result = Len(matches[s])
                                        - Len(RemoveAll(matches[s], response))]
    /\ UNCHANGED <<calls, passthru_prefixes, assert_all_requests_are_fired,
                   patcher, send, inScope, starts, returned,
                   consumed>>

\* RequestsMock.replace (method, url, body, match_querystring, match)
Replace(s, method, url, body, match_querystring, match) ==
    /\ LET response == NewResponse(method, url, body, match_querystring,
                                   match)
           index == Index(matches[s], response)
       IN IF index = 0
          THEN /\ last' = [NoLast EXCEPT !.op = "replace", !.sess = s,
                                         !.outcome = "raise",
                                         !.error = "ValueError",
                                         !.spec = response]
               /\ UNCHANGED matches
          ELSE /\ matches' = [matches EXCEPT ![s][index] = response]
               /\ last' = [NoLast EXCEPT !.op = "replace", !.sess = s,
                                         !.index = index, !.spec = response]
    /\ UNCHANGED <<calls, passthru_prefixes, assert_all_requests_are_fired,
                   patcher, send, inScope, starts, returned,
                   consumed>>

\* an upsert() that lets replace's ValueError through
UpsertNoAdd(s, method, url, body, match_querystring, match) ==
    /\ LET response == NewResponse(method, url, body, match_querystring,
                                   match)
           index == Index(matches[s], response)
       IN IF index = 0
          THEN /\ last' = [NoLast EXCEPT !.op = "upsert", !.sess = s,
                                         !.outcome = "raise",
                                         !.error = "ValueError",
                                         !.spec = response]
               /\ UNCHANGED matches
          ELSE /\ matches' = [matches EXCEPT ![s][index] = response]
               /\ last' = [NoLast EXCEPT !.op = "upsert", !.sess = s,
                                         !.index = index, !.spec = response]
    /\ UNCHANGED <<calls, passthru_prefixes, assert_all_requests_are_fired,
                   patcher, send, inScope, starts, returned,
                   consumed>>

\* RequestsMock.upsert: replace, and add when replace raises ValueError
Upsert(s, method, url, body, match_querystring, match) ==
    /\ LET response == NewResponse(method, url, body, match_querystring,
                                   match)
           index == Index(matches[s], response)
       IN IF index = 0
          THEN /\ Len(matches[s]) < MaxSpecs
               /\ matches' = [matches EXCEPT ![s] = Append(@, response)]
               /\ last' = [NoLast EXCEPT !.op = "upsert", !.sess = s,
                                         !.spec = response]
          ELSE /\ matches' = [matches EXCEPT ![s][index] = response]
               /\ last' = [NoLast EXCEPT !.op = "upsert", !.sess = s,
                                         !.index = index, !.spec = response]
    /\ UNCHANGED <<calls, passthru_prefixes, assert_all_requests_are_fired,
                   patcher, send, inScope, starts, returned,
                   consumed>>

\* RequestsMock.registered: the caller is handed self._matches itself
Registered(s) ==
    /\ returned' = [returned EXCEPT ![s] =
           [held |-> TRUE, alias |-> TRUE, at_return |-> matches[s],
            frozen |-> <<>>]]
    /\ last' = [NoLast EXCEPT !.op = "registered", !.sess = s]
    /\ UNCHANGED <<matches, calls, passthru_prefixes,
                   assert_all_requests_are_fired, patcher, send, inScope,
                   starts, consumed>>

\* the caller does pop() on the list registered() gave it: the list it
\* changes is self._matches as long as the session has not rebound it;
\* at_return follows the caller's own change
PopReturned(s) ==
    /\ returned[s].held
    /\ SeenThrough(s) # <<>>
    /\ IF returned[s].alias
       THEN /\ matches' = [matches EXCEPT ![s] = SubSeq(@, 1, Len(@) - 1)]
            /\ returned' = [returned EXCEPT ![s].at_return =
                   IF @ = <<>> THEN @ ELSE SubSeq(@, 1, Len(@) - 1)]
       ELSE /\ returned' = [returned EXCEPT
                   ![s].frozen = SubSeq(@, 1, Len(@) - 1),
                   ![s].at_return =
                       IF @ = <<>> THEN @ ELSE SubSeq(@, 1, Len(@) - 1)]
            /\ UNCHANGED matches
    /\ last' = [NoLast EXCEPT !.op = "pop_returned", !.sess = s]
    /\ UNCHANGED <<calls, passthru_prefixes, assert_all_requests_are_fired,
                   patcher, send, inScope, starts, consumed>>

\* RequestsMock.add_passthru
AddPassthru(s, prefix) ==
    /\ Len(passthru_prefixes[s]) < MaxPrefixes
    /\ passthru_prefixes' = [passthru_prefixes EXCEPT ![s] = Append(@, prefix)]
    /\ last' = [NoLast EXCEPT !.op = "add_passthru", !.sess = s]
    /\ UNCHANGED <<matches, calls, assert_all_requests_are_fired,
                   patcher, send, inScope, starts, returned,
                   consumed>>

\* RequestsMock.reset
Reset(s) ==
    /\ matches' = [matches EXCEPT ![s] = <<>>]
    /\ calls' = [calls EXCEPT ![s] = <<>>]
    /\ returned' = Rebind(s)
    /\ consumed' = [consumed EXCEPT ![s] = 0]
    /\ last' = [NoLast EXCEPT !.op = "reset", !.sess = s]
    /\ UNCHANGED <<passthru_prefixes, assert_all_requests_are_fired,
                   patcher, send, inScope, starts>>

\* mock.patch(target, new).start(): remember the attribute's current value
PatcherStart(s) == [has |-> TRUE, started |-> TRUE, temp_original |-> send]

\* RequestsMock.start
Start(s) ==
    /\ starts[s] < MaxStarts
    /\ patcher' = [patcher EXCEPT ![s] = PatcherStart(s)]
    /\ send' = s
    /\ starts' = [starts EXCEPT ![s] = @ + 1]
    /\ last' = [NoLast EXCEPT !.op = "start", !.sess = s]
    /\ UNCHANGED <<matches, calls, passthru_prefixes,
                   assert_all_requests_are_fired, inScope, returned,
                   consumed>>

\* the (method, url) pairs of stop()'s not_called list
RECURSIVE NotCalled(_)
NotCalled(ms) ==
    IF ms = <<>> THEN <<>>
    ELSE IF Head(ms).call_count = 0
         THEN <<<<Head(ms).method, Head(ms).url>>>> \o NotCalled(Tail(ms))
         ELSE NotCalled(Tail(ms))

\* a stop() that asserts whatever allow_assert says
StopRaisesAlways(s, allow_assert) ==
    IF ~assert_all_requests_are_fired[s] THEN FALSE
    ELSE NotCalled(matches[s]) # <<>>

\* whether stop(allow_assert) raises its AssertionError
StopRaises(s, allow_assert) ==
    IF ~assert_all_requests_are_fired[s] THEN FALSE
    ELSE IF ~allow_assert THEN FALSE
    ELSE NotCalled(matches[s]) # <<>>

StopLast(s, allow_assert, op) ==
    IF StopRaises(s, allow_assert)
    THEN [NoLast EXCEPT !.op = op, !.sess = s, !.outcome = "raise",
                        !.error = "AssertionError",
                        !.not_called = NotCalled(matches[s]),
                        !.allow_assert = allow_assert]
    ELSE [NoLast EXCEPT !.op = op, !.sess = s,
                        !.allow_assert = allow_assert]

\* a stop() that also resets the session
StopResets(s, allow_assert) ==
    /\ patcher[s].started
    /\ send' = patcher[s].temp_original
    /\ patcher' = [patcher EXCEPT ![s].started = FALSE]
    /\ last' = StopLast(s, allow_assert, "stop")
    /\ matches' = [matches EXCEPT ![s] = <<>>]
    /\ calls' = [calls EXCEPT ![s] = <<>>]
    /\ UNCHANGED <<passthru_prefixes, assert_all_requests_are_fired,
                   inScope, starts, returned,
                   consumed>>

\* RequestsMock.stop
Stop(s, allow_assert) ==
    /\ patcher[s].started
    /\ send' = patcher[s].temp_original
    /\ patcher' = [patcher EXCEPT ![s].started = FALSE]
    /\ last' = StopLast(s, allow_assert, "stop")
    /\ UNCHANGED <<matches, calls, passthru_prefixes,
                   assert_all_requests_are_fired, inScope, starts, returned,
                   consumed>>

\* RequestsMock.__enter__
Enter(s) ==
    /\ ~inScope[s]
    /\ starts[s] < MaxStarts
    /\ patcher' = [patcher EXCEPT ![s] = PatcherStart(s)]
    /\ send' = s
    /\ starts' = [starts EXCEPT ![s] = @ + 1]
    /\ inScope' = [inScope EXCEPT ![s] = TRUE]
    /\ last' = [NoLast EXCEPT !.op = "enter", !.sess = s]
    /\ UNCHANGED <<matches, calls, passthru_prefixes,
                   assert_all_requests_are_fired, returned,
                   consumed>>

\* RequestsMock.__exit__: success = type is None; stop(success); reset()
Exit(s, success) ==
    /\ inScope[s]
    /\ patcher[s].started
    /\ send' = patcher[s].temp_original
    /\ patcher' = [patcher EXCEPT ![s].started = FALSE]
    /\ inScope' = [inScope EXCEPT ![s] = FALSE]
    /\ last' = StopLast(s, success, "exit")
    /\ IF StopRaises(s, success)
       THEN UNCHANGED <<matches, calls, returned,
                   consumed>>
       ELSE /\ matches' = [matches EXCEPT ![s] = <<>>]
            /\ calls' = [calls EXCEPT ![s] = <<>>]
            /\ returned' = Rebind(s)
            /\ consumed' = [consumed EXCEPT ![s] = 0]
    /\ UNCHANGED <<passthru_prefixes, assert_all_requests_are_fired, starts>>

\* a dispatch that forgets to count the call
AfterAnswerNoCount(ms, fm) == fm.matches

\* a dispatch that counts the call on every entry left in the registry
AfterAnswerCountsAll(ms, fm) ==
    [i \in 1..Len(fm.matches) |->
        [fm.matches[i] EXCEPT !.call_count = @ + 1]]

\* the registry after a dispatch answered by the entry at fm.index
AfterAnswer(ms, fm) ==
    IF fm.popped
    THEN fm.matches
    ELSE [fm.matches EXCEPT ![fm.index].call_count = @ + 1]

\* RequestsMock._on_request, reached when the hook of s is the installed
\* send; last.result is match.call_count after the dispatch
OnRequest(s, request) ==
    /\ send = s
    /\ Len(calls[s]) < MaxCalls
    /\ LET fm == FindMatch(matches[s], request)
           base == [NoLast EXCEPT !.op = "dispatch", !.sess = s,
                                  !.request = request]
       IN IF fm.index = 0
          THEN IF AnyPassthru(passthru_prefixes[s], request.url)
               THEN /\ last' = [base EXCEPT !.outcome = "passthru"]
                    /\ UNCHANGED <<matches, calls, consumed>>
               ELSE LET response == ErrorMsg(matches[s], request,
                                             fm.match_failed_reasons)
                    IN /\ calls' = [calls EXCEPT ![s] =
                                       CallListAdd(@, request, response)]
                       /\ last' = [base EXCEPT !.outcome = "raise",
                                               !.error = "ConnectionError",
                                               !.response = response]
                       /\ UNCHANGED <<matches, consumed>>
          ELSE LET match == matches[s][fm.index]
                   response == GetResponse(match)
               IN /\ matches' = [matches EXCEPT ![s] = AfterAnswer(@, fm)]
                  /\ calls' = [calls EXCEPT ![s] =
                                  CallListAdd(@, request, response)]
                  /\ last' = [base EXCEPT
                        !.outcome = IF response.kind = "Exception"
                                    THEN "raise" ELSE "return",
                        !.error = IF response.kind = "Exception"
                                  THEN "SpecException" ELSE "",
                        !.index = fm.index, !.popped = fm.popped,
                        !.spec = match, !.response = response,
                        !.result = match.call_count + 1]
                  /\ consumed' = [consumed EXCEPT ![s] =
                        IF fm.popped THEN @ + match.call_count + 1 ELSE @]
    /\ UNCHANGED <<passthru_prefixes, assert_all_requests_are_fired,
                   patcher, send, inScope, starts, returned>>

\* a count of the calls whose url is the argument as it was given
CountCallsAsGiven(log, url) ==
    Cardinality({i \in 1..Len(log) : log[i].request.url = url})

\* the call_count of assert_call_count
CountCalls(log, url) ==
    Cardinality({i \in 1..Len(log) :
                    log[i].request.url = EnsureUrlDefaultPath(url)})

\* RequestsMock.assert_call_count: True, or the AssertionError whose message
\* carries url, count and call_count
AssertCallCount(s, url, count) ==
    /\ LET call_count == CountCalls(calls[s], url)
           base == [NoLast EXCEPT !.op = "assert_call_count", !.sess = s,
                                  !.arg = <<url, count>>]
       IN IF call_count = count
          THEN last' = [base EXCEPT !.result = TRUE]
          ELSE last' = [base EXCEPT !.outcome = "raise",
                                    !.error = "AssertionError",
                                    !.result = <<url, count, call_count>>]
    /\ UNCHANGED <<matches, calls, passthru_prefixes,
                   assert_all_requests_are_fired, patcher, send, inScope,
                   starts, returned,
                   consumed>>

\* HTTPAdapter.send is _real_send: no session sees the request
RealSend(request) ==
    /\ send = "real"
    /\ last' = [NoLast EXCEPT !.op = "real_send", !.request = request]
    /\ UNCHANGED <<matches, calls, passthru_prefixes,
                   assert_all_requests_are_fired, patcher, send, inScope,
                   starts, returned,
                   consumed>>

\* BaseResponse(method, url, match_querystring, match).matches(request),
\* applied to the arguments drawn at the start; last.result is the tuple
\* it returns
CallMatches ==
    /\ last.op = "matches_input"
    /\ LET response == NewResponse(last.arg[1], last.arg[2], "", last.arg[3],
                                   last.arg[4])
       IN last' = [last EXCEPT !.op = "matches", !.spec = response,
                               !.result = Matches(response, last.request)]
    /\ UNCHANGED <<matches, calls, passthru_prefixes,
                   assert_all_requests_are_fired, patcher, send, inScope,
                   starts, returned,
                   consumed>>

\* json_params_matcher(params)(request_body), applied to the arguments
\* drawn at the start
CallJsonMatcher ==
    /\ last.op = "json_input"
    /\ LET r == JsonParamsMatcher(last.arg[1], last.arg[2], last.arg[3])
       IN last' = [last EXCEPT !.op = "json_matcher", !.outcome = r.outcome,
                               !.error = r.error, !.result = r.result]
    /\ UNCHANGED <<matches, calls, passthru_prefixes,
                   assert_all_requests_are_fired, patcher, send, inScope,
                   starts, returned,
                   consumed>>

\* ------------------------------------------------------------ input sets
\* arguments of add(): two plain GET mocks (a text body, an exception body)
\* and a POST mock that wants the request body b1
AddArg(m, b, mt) ==
    [method |-> m, url |-> Lit("x", "", <<>>), body |-> b,
     match_querystring |-> Unspecified, match |-> mt]
AddArgs == {AddArg("GET", "text", <<>>), AddArg("GET", "exc", <<>>),
            AddArg("POST", "text", <<"b1">>)}
Req(m, h, b) == [method |-> m, url |-> Lit(h, "/", <<>>), body |-> b]
Requests == {Req("GET", "x", "none"), Req("POST", "x", "none"),
             Req("POST", "x", "b1"), Req("GET", "y", "none")}
Prefixes == {Lit("y", "", <<>>)}

\* ------------------------------- the engine of the default session
Activate == starts["mock"] = 0 /\ Start("mock")

Next ==
    \/ \E a \in AddArgs :
          Add("mock", a.method, a.url, a.body, a.match_querystring, a.match)
    \/ \E p \in Prefixes : AddPassthru("mock", p)
    \/ Activate
    \/ \E r \in Requests : OnRequest("mock", r)
    \/ Reset("mock")

\* the user session, which takes no step here, has the constructor's default
InitEngine == Init /\ assert_all_requests_are_fired["user"]

Spec == InitEngine /\ [][Next]_vars

\* ------------------------------------- the life cycle of the user session
LifeUrls == {Lit("x", "", <<>>), Lit("y", "", <<>>)}
LifeRequests == {Req("GET", "x", "none"), Req("GET", "y", "none")}

NextLife ==
    \/ \E u \in LifeUrls : Add("user", "GET", u, "text", Unspecified, <<>>)
    \/ Start("user")
    \/ \E allow_assert \in BOOLEAN : Stop("user", allow_assert)
    \/ Enter("user")
    \/ \E success \in BOOLEAN : Exit("user", success)
    \/ Reset("user")
    \/ \E r \in LifeRequests : OnRequest("user", r)
    \/ \E r \in LifeRequests : RealSend(r)

SpecLife == Init /\ [][NextLife]_vars

\* ------------------------------------ two sessions on HTTPAdapter.send
NextTwo ==
    \/ \E s \in Sessions : Start(s)
    \/ \E s \in Sessions, allow_assert \in BOOLEAN : Stop(s, allow_assert)
    \/ \E s \in Sessions, r \in LifeRequests : OnRequest(s, r)
    \/ \E r \in LifeRequests : RealSend(r)

SpecTwo == Init /\ [][NextTwo]_vars

\* ------------------------------- the registry of the default session
\* arguments of add(), replace() and upsert(): four that are equal by
\* (method, url) and differ in everything else, a POST and a url with a
\* query string
RegArg(m, u, b, mq, mt) ==
    [method |-> m, url |-> u, body |-> b, match_querystring |-> mq,
     match |-> mt]
RegArgs == {RegArg("GET", Lit("x", "", <<>>), "text", Unspecified, <<>>),
            RegArg("GET", Lit("x", "/", <<>>), "exc", "True", <<"b1">>),
            RegArg("GET", Re("x"), "text", Unspecified, <<>>),
            RegArg("POST", Lit("x", "", <<>>), "text", Unspecified, <<>>),
            RegArg("GET", Lit("x", "/", <<<<1, 1>>>>), "text", Unspecified,
                   <<>>)}
RegCallbackUrls == {Lit("x", "", <<>>), Lit("x", "/", <<<<1, 1>>>>), Re("x")}
RegKeys == {<<"GET", Lit("x", "", <<>>)>>, <<"GET", Re("x")>>,
            <<"POST", Lit("x", "/", <<>>)>>, <<"GET", Lit("y", "", <<>>)>>}

NextRegistry ==
    \/ \E a \in RegArgs :
          Add("mock", a.method, a.url, a.body, a.match_querystring, a.match)
    \/ \E u \in RegCallbackUrls, mq \in {Unspecified, "True"} :
          AddCallback("mock", "GET", u, "returns_tuple", mq)
    \/ \E k \in RegKeys : Remove("mock", k[1], k[2])
    \/ \E a \in RegArgs :
          Replace("mock", a.method, a.url, a.body, a.match_querystring,
                  a.match)
    \/ \E a \in RegArgs :
          Upsert("mock", a.method, a.url, a.body, a.match_querystring,
                 a.match)

SpecRegistry == InitEngine /\ [][NextRegistry]_vars

\* ------------------------ the call log of the default session, asserted
LogUrls == {Lit("x", "", <<>>), Lit("x", "/", <<>>), Lit("y", "/", <<>>)}

NextLog ==
    \/ \E b \in {"text", "exc"} :
          Add("mock", "GET", Lit("x", "", <<>>), b, Unspecified, <<>>)
    \/ Activate
    \/ \E r \in {Req("GET", "x", "none"), Req("POST", "x", "none"),
                  Req("GET", "y", "none")} : OnRequest("mock", r)
    \/ \E u \in LogUrls, n \in 0..MaxCalls : AssertCallCount("mock", u, n)

SpecLog == InitEngine /\ [][NextLog]_vars

\* ------------------------------ specs whose get_response raises
NextRaise ==
    \/ \E b \in {"text", "exc"} :
          Add("mock", "GET", Lit("x", "", <<>>), b, Unspecified, <<>>)
    \/ \E c \in {"returns_exc", "returns_body_exc"} :
          AddCallback("mock", "GET", Lit("x", "", <<>>), c, Unspecified)
    \/ Activate
    \/ \E r \in {Req("GET", "x", "none"), Req("GET", "y", "none")} :
          OnRequest("mock", r)

SpecRaise == InitEngine /\ [][NextRaise]_vars

\* ------------- passthru prefixes that cover the url of a registered spec
PassthruPrefixes == {Lit("x", "", <<>>), Re("y")}
PassthruRequests == {Req("GET", "x", "none"), Req("POST", "x", "none"),
                     Req("GET", "y", "none")}

NextPassthru ==
    \/ Add("mock", "GET", Lit("x", "", <<>>), "text", Unspecified, <<>>)
    \/ \E p \in PassthruPrefixes : AddPassthru("mock", p)
    \/ Activate
    \/ \E r \in PassthruRequests : OnRequest("mock", r)

SpecPassthru == InitEngine /\ [][NextPassthru]_vars

\* --------------------------------- the matching functions on their own
\* query strings: a=1, b=2 and a=2 in several orders and multiplicities
QueryStrings == {<<>>, <<<<1, 1>>>>, <<<<1, 1>>, <<2, 2>>>>,
                 <<<<2, 2>>, <<1, 1>>>>, <<<<1, 1>>, <<1, 1>>>>,
                 <<<<1, 2>>, <<1, 1>>>>, <<<<1, 1>>, <<1, 2>>>>}
MatchUrls == {Lit(h, p, q) : h \in {"x", "y"}, p \in {"", "/p"},
                             q \in QueryStrings}
                 \cup {Re("x"), Re("y")}
MatchRequests == {[method |-> m, url |-> Lit(h, p, q), body |-> b] :
                     m \in Methods \cup {"get"}, h \in {"x", "y"},
                     p \in {"/", "/p"},
                     q \in QueryStrings, b \in {"none", "b1"}}
MatchInputs ==
    {[NoLast EXCEPT !.op = "matches_input", !.arg = <<m, u, mq, mt>>,
                    !.request = r] :
        m \in Methods, u \in MatchUrls,
        mq \in {Unspecified, "True", "False"},
        mt \in {<<>>, <<"b1">>}, r \in MatchRequests}

\* request bodies: None, texts, and bytes that are or are not utf-8
JsonBody(t, u, x) == [type |-> t, utf8 |-> u, text |-> x]
JsonTexts == {"null", "{\"a\": 1}", "{\"a\": 2}", "not json", ""}
JsonBodies == {JsonBody("NoneType", TRUE, "")}
                 \cup {JsonBody("str", TRUE, x) : x \in JsonTexts}
                 \cup {JsonBody("bytes", TRUE, x) : x \in JsonTexts}
                 \cup {JsonBody("bytes", FALSE, "")}
JsonInputs ==
    {[NoLast EXCEPT !.op = "json_input", !.arg = <<params, body, e>>] :
        params \in {"None", "a1", "a2"}, body \in JsonBodies,
        e \in {"json.decoder.JSONDecodeError", "ValueError"}}

InitPure ==
    /\ matches = [s \in Sessions |-> <<>>]
    /\ calls = [s \in Sessions |-> <<>>]
    /\ passthru_prefixes = [s \in Sessions |-> <<>>]
    /\ assert_all_requests_are_fired = [s \in Sessions |-> s = "user"]
    /\ patcher = [s \in Sessions |-> NoPatcher]
    /\ send = "real"
    /\ inScope = [s \in Sessions |-> FALSE]
    /\ starts = [s \in Sessions |-> 0]
    /\ returned = [s \in Sessions |-> NoReturned]
    /\ consumed = [s \in Sessions |-> 0]
    /\ last \in MatchInputs \cup JsonInputs

NextPure ==
    \/ CallMatches
    \/ CallJsonMatcher

SpecPure == InitPure /\ [][NextPure]_vars

\* ------------------- a caller that keeps what registered() returned
NextSnapshot ==
    \/ Add("mock", "GET", Lit("x", "", <<>>), "text", Unspecified, <<>>)
    \/ Remove("mock", "GET", Lit("x", "", <<>>))
    \/ Replace("mock", "GET", Lit("x", "", <<>>), "exc", Unspecified, <<>>)
    \/ Activate
    \/ OnRequest("mock", Req("GET", "x", "none"))
    \/ Reset("mock")
    \/ Registered("mock")
    \/ PopReturned("mock")

SpecSnapshot == InitEngine /\ [][NextSnapshot]_vars


\* ------------------------------------------------------------ the claims
MatchingAt(ms, request) ==
    {i \in 1..Len(ms) : Matches(ms[i], request)[1]}

Covered(s, request) ==
    \E k \in 1..Len(passthru_prefixes[s]) :
        PrefixCovers(passthru_prefixes[s][k], request.url)

Unfired(ms) == SelectSeq(ms, LAMBDA m : m.call_count = 0)

IsStop(op) == op \in {"stop", "exit"}

\* C1 (as stated): after a stop() the session's registry and call list are
\* empty, as after reset().
C1_StopLeavesSessionReset ==
    last.op = "stop" =>
        matches[last.sess] = <<>> /\ calls[last.sess] = <<>>

\* C1 (amended): stop() leaves the registry and the call list exactly as they
\* were; reset() is what empties both.
C1_StopKeepsResetClears ==
    [][/\ last'.op = "stop" => matches' = matches /\ calls' = calls
       /\ last'.op = "reset" =>
             matches'[last'.sess] = <<>> /\ calls'[last'.sess] = <<>>]_vars

C1_Witness ==
    /\ last.op = "stop"
    /\ starts[last.sess] = 1
    /\ matches[last.sess] # <<>>
    /\ calls[last.sess] # <<>>

\* C2 (as stated): whenever two registered specs both match the dispatched
\* request, the dispatch is answered by the earlier of the two.
C2_EarlierOfEveryPairAnswers ==
    [][last'.op = "dispatch" =>
        \A i, j \in MatchingAt(matches[last'.sess], last'.request) :
            i < j => last'.index = i]_vars

\* C2 (amended): whenever two registered specs both match the dispatched
\* request, the dispatch is never answered by the later of the two: it is
\* answered by the first matching spec of the registry, whatever else is
\* registered.
C2_FirstMatchAnswers ==
    [][last'.op = "dispatch" =>
        LET ms == matches[last'.sess]
            M == MatchingAt(ms, last'.request)
        IN /\ \A i, j \in M : i < j => last'.index # j
           /\ M # {} =>
                 /\ last'.index \in M
                 /\ \A i \in M : last'.index <= i
                 /\ last'.spec = ms[last'.index]]_vars

C2_Witness ==
    /\ last.op = "dispatch"
    /\ last.popped
    /\ last.index = 1
    /\ Cardinality(MatchingAt(matches[last.sess], last.request)) >= 2

\* C3: with exactly two specs S1, S2 matching r, in that order, a dispatch
\* of r is answered by S1 and removes S1 alone; S2 is then the only match, a
\* further dispatch of r is answered by S2 and S2 stays registered.
C3_OneShotConsumption ==
    [][last'.op = "dispatch" =>
        LET s == last'.sess
            r == last'.request
            ms == matches[s]
            M == MatchingAt(ms, r)
        IN /\ Cardinality(M) = 2 =>
                \E i, j \in M :
                    /\ i < j
                    /\ last'.index = i /\ last'.spec = ms[i] /\ last'.popped
                    /\ matches'[s] = RemoveAt(ms, i)
                    /\ matches'[s][j - 1] = ms[j]
                    /\ MatchingAt(matches'[s], r) = {j - 1}
           /\ (last.op = "dispatch" /\ last.popped /\ last.sess = s
                 /\ last.request = r /\ Cardinality(M) = 1) =>
                \E j \in M :
                    /\ last'.index = j /\ last'.spec = ms[j] /\ ~last'.popped
                    /\ Len(matches'[s]) = Len(ms)
                    /\ MatchingAt(matches'[s], r) = {j}]_vars

C3_Witness ==
    /\ last.op = "dispatch"
    /\ last.popped
    /\ Cardinality(MatchingAt(matches[last.sess], last.request)) = 1
    /\ calls[last.sess] # <<>>

\* C4: with exactly one spec matching r, a dispatch of r leaves the registry
\* as it is but for that spec's call_count, which grows by exactly one, also
\* when the spec raises; a spec is registered with call_count 0.
C4_SingleMatchReused ==
    [][/\ last'.op = "dispatch" =>
            LET s == last'.sess
                ms == matches[s]
                M == MatchingAt(ms, last'.request)
            IN Cardinality(M) = 1 =>
                 \E i \in M :
                    /\ last'.index = i /\ ~last'.popped
                    /\ matches'[s] =
                         [ms EXCEPT ![i].call_count = ms[i].call_count + 1]
       /\ last'.op = "add" =>
            matches'[last'.sess][Len(matches'[last'.sess])].call_count = 0]_vars

C4_Witness ==
    /\ last.op = "dispatch"
    /\ last.outcome = "raise"
    /\ last.index > 0
    /\ ~last.popped
    /\ matches[last.sess][last.index].call_count = 2
    /\ Len(calls[last.sess]) = 2

\* C5: stop(allow_assert), also when __exit__ calls it with the scope's
\* success flag, raises the AssertionError exactly when the session's
\* assert_all_requests_are_fired is set, allow_assert is true and some
\* registered spec has call_count 0, and the error lists the (method, url)
\* of exactly those specs in registry order.
C5_TeardownAssertion ==
    [][IsStop(last'.op) =>
        LET s == last'.sess
            unfired == Unfired(matches[s])
        IN /\ (last'.outcome = "raise") <=>
                 /\ assert_all_requests_are_fired[s]
                 /\ last'.allow_assert
                 /\ \E i \in 1..Len(matches[s]) : matches[s][i].call_count = 0
           /\ last'.outcome = "raise" =>
                 /\ last'.error = "AssertionError"
                 /\ last'.not_called =
                       [k \in 1..Len(unfired) |->
                           <<unfired[k].method, unfired[k].url>>]
           /\ last'.outcome # "raise" => last'.not_called = <<>>]_vars

C5_Witness ==
    /\ last.op = "exit"
    /\ last.outcome = "raise"
    /\ Len(last.not_called) = 1
    /\ Len(matches[last.sess]) = 2

\* C6 (as stated): after every exit of the scope the registry and the call
\* list are empty.
C6_ExitAlwaysResets ==
    last.op = "exit" =>
        matches[last.sess] = <<>> /\ calls[last.sess] = <<>>

\* C7: a dispatch that no registered spec matches and no passthru prefix
\* covers raises a ConnectionError naming the request's method and url and
\* giving, for each registered spec in order, that spec's own failure
\* reason; one (request, error) call is appended and the registry is
\* unchanged.
C7_NoMatchDiagnostics ==
    [][last'.op = "dispatch" =>
        LET s == last'.sess
            r == last'.request
            ms == matches[s]
        IN (MatchingAt(ms, r) = {} /\ ~Covered(s, r)) =>
             /\ last'.outcome = "raise"
             /\ last'.error = "ConnectionError"
             /\ last'.response.kind = "ConnectionError"
             /\ last'.response.method = r.method
             /\ last'.response.url = r.url
             /\ Len(last'.response.lines) = Len(ms)
             /\ \A i \in 1..Len(ms) :
                   last'.response.lines[i] =
                       <<ms[i].method, ms[i].url, Matches(ms[i], r)[2]>>
             /\ calls'[s] = Append(calls[s],
                    [request |-> r, response |-> last'.response])
             /\ matches'[s] = ms]_vars

C7_Witness ==
    /\ last.op = "dispatch"
    /\ last.error = "ConnectionError"
    /\ Len(last.response.lines) = 2
    /\ last.response.lines[1][3] # last.response.lines[2][3]

\* C8 (as stated): start() on a session whose hook is installed either
\* fails or leaves the session with a patcher whose stop() puts back the
\* transport that was there before the session was first started.
C8_NoDoubleInstall ==
    [][\A s \in Sessions :
        (patcher[s].started /\ last'.sess = s
            /\ last'.op \in {"start", "enter"}) =>
           \/ last'.outcome = "raise"
           \/ patcher'[s].temp_original = patcher[s].temp_original]_vars

\* C9 (as stated): with each session started at most once, the installed
\* send is the hook of the only active session while exactly one is active,
\* and _real_send once both have been stopped.
C9_SessionsCoexist ==
    (\A s \in Sessions : starts[s] <= 1) =>
        /\ (\A s \in Sessions : starts[s] = 1 /\ ~patcher[s].started) =>
               send = "real"
        /\ \A s \in Sessions :
               (patcher[s].started
                   /\ \A t \in Sessions \ {s} : ~patcher[t].started) =>
                  send = s

\* C10 (as stated): every dispatch appends exactly one call carrying the
\* dispatched request, and no operation but reset changes the calls
\* already recorded.
C10_EveryDispatchRecorded ==
    [][/\ last'.op = "dispatch" =>
            LET s == last'.sess
            IN /\ Len(calls'[s]) = Len(calls[s]) + 1
               /\ calls'[s][Len(calls'[s])].request = last'.request
               /\ SubSeq(calls'[s], 1, Len(calls[s])) = calls[s]
       /\ last'.op \notin {"dispatch", "reset", "exit"} =>
            calls' = calls]_vars

\* C10 (amended): every dispatch that is not forwarded by passthru appends
\* exactly one call carrying the dispatched request, after the calls already
\* recorded, which stay as they are; a forwarded request is not recorded;
\* no operation but reset changes the call list otherwise.
C10_AppendOnly ==
    [][/\ (last'.op = "dispatch" /\ last'.outcome # "passthru") =>
            LET s == last'.sess
            IN /\ Len(calls'[s]) = Len(calls[s]) + 1
               /\ calls'[s][Len(calls'[s])].request = last'.request
               /\ SubSeq(calls'[s], 1, Len(calls[s])) = calls[s]
       /\ (last'.op = "dispatch" /\ last'.outcome = "passthru") =>
            calls' = calls
       /\ last'.op \notin {"dispatch", "reset", "exit"} =>
            calls' = calls]_vars

C10_Witness ==
    /\ last.op = "dispatch"
    /\ last.outcome = "passthru"
    /\ Len(calls[last.sess]) = 1
    /\ calls[last.sess][1].response.kind = "Response"
    /\ calls[last.sess][1].request # last.request

\* (method, url) equality with a key: the methods are equal and so are the
\* url texts, a pattern standing for its source text
SameKey(e, method, url) ==
    /\ e.method = method
    /\ <<e.url.host, e.url.path, e.url.query>> =
           <<url.host, url.path, url.query>>

WithDefaultPath(url) ==
    IF url.kind = "str" /\ url.path = ""
    THEN Lit(url.host, "/", url.query) ELSE url

EqualAt(ms, key) ==
    {i \in 1..Len(ms) : SameKey(ms[i], key.method, key.url)}

\* C11: remove(method, url) deletes every entry whose method and url equal
\* the key's (the url with the default path "/" applied), whatever the
\* entry's body, matchers, query-string mode or variant; the other entries
\* keep their relative order; with no equal entry the registry is unchanged.
C11_RemoveDeletesEveryEqual ==
    [][last'.op = "remove" =>
        LET s == last'.sess
            method == last'.spec.method
            url == WithDefaultPath(last'.arg)
        IN /\ matches'[s] =
                 SelectSeq(matches[s], LAMBDA e : ~SameKey(e, method, url))
           /\ (\A i \in 1..Len(matches[s]) :
                   ~SameKey(matches[s][i], method, url)) =>
                 matches' = matches]_vars

\* a remove() given a url without a path that deleted two entries and left
\* the POST entry in place
C11_Witness ==
    /\ last.op = "remove"
    /\ last.arg = Lit("x", "", <<>>)
    /\ last.result = 2
    /\ Len(matches[last.sess]) = 1
    /\ matches[last.sess][1].method = "POST"

\* C12: replace overwrites the first entry equal to the new spec by
\* (method, url), at the same position, and leaves the length and every
\* other entry, later equal entries included, as they were; with no equal
\* entry it raises ValueError and leaves the registry unchanged.
C12_ReplaceFirstEqualInPlace ==
    [][last'.op = "replace" =>
        LET s == last'.sess
            E == EqualAt(matches[s], last'.spec)
        IN IF E = {}
           THEN /\ last'.outcome = "raise"
                /\ last'.error = "ValueError"
                /\ matches' = matches
           ELSE /\ last'.outcome = "return"
                /\ Len(matches'[s]) = Len(matches[s])
                /\ \A i \in 1..Len(matches[s]) :
                      matches'[s][i] =
                          IF \A j \in E : i <= j
                          THEN IF i \in E THEN last'.spec ELSE matches[s][i]
                          ELSE matches[s][i]]_vars

\* a replace() that overwrote an entry while a later, different entry with
\* the same (method, url) is still registered
C12_Witness ==
    /\ last.op = "replace"
    /\ last.outcome = "return"
    /\ LET ms == matches[last.sess]
       IN /\ ms[last.index] = last.spec
          /\ \E j \in 1..Len(ms) :
                /\ j > last.index
                /\ SameKey(ms[j], last.spec.method, last.spec.url)
                /\ ms[j] # last.spec

\* C13: upsert never fails for lack of an entry: with an entry equal by
\* (method, url) it has the effect of replace (the first equal entry is
\* overwritten in place), otherwise the effect of add (the new spec is
\* appended at the end and the length grows by one).
C13_UpsertReplacesOrAdds ==
    [][last'.op = "upsert" =>
        LET s == last'.sess
            E == EqualAt(matches[s], last'.spec)
        IN /\ last'.outcome = "return"
           /\ IF E = {}
              THEN matches'[s] = Append(matches[s], last'.spec)
              ELSE /\ Len(matches'[s]) = Len(matches[s])
                   /\ \A i \in 1..Len(matches[s]) :
                         matches'[s][i] =
                             IF i \in E /\ \A j \in E : i <= j
                             THEN last'.spec ELSE matches[s][i]]_vars

\* an upsert() that found no equal entry in a non-empty registry and
\* appended its spec
C13_Witness ==
    /\ last.op = "upsert"
    /\ last.index = 0
    /\ Len(matches[last.sess]) >= 2
    /\ matches[last.sess][Len(matches[last.sess])] = last.spec

\* C14 (as stated): registered() returns a read-only snapshot: what it
\* returned is not changed by a later add, remove, replace or dispatch (a
\* one-shot consumption included), and a change the caller makes to the
\* returned value does not change the registry.
C14_RegisteredIsSnapshot ==
    [][/\ \A s \in Sessions :
            (/\ returned[s].held
             /\ last'.sess = s
             /\ last'.op \in {"add", "remove", "replace", "dispatch"}) =>
               SeenThrough(s)' = SeenThrough(s)
       /\ last'.op = "pop_returned" => matches' = matches]_vars

\* C15 (as stated): when the caller of add or add_callback gives no
\* match_querystring, the registered spec's match_querystring is false for a
\* pattern url and, for a literal url, true exactly when the url has a query
\* string.
C15_InferredMatchQuerystring ==
    [][(/\ last'.op \in {"add", "add_callback"}
        /\ last'.arg = Unspecified) =>
          LET ms == matches'[last'.sess]
              e == ms[Len(ms)]
          IN /\ e = last'.spec
             /\ e.match_querystring =
                    (e.url.kind = "str" /\ e.url.query # <<>>)]_vars

\* the number of times pair occurs in the query string q
RECURSIVE Occurrences(_, _)
Occurrences(pair, q) ==
    IF q = <<>> THEN 0
    ELSE (IF Head(q) = pair THEN 1 ELSE 0) + Occurrences(pair, Tail(q))

SameParams(q1, q2) ==
    \A k \in 1..2, v \in 1..2 :
        Occurrences(<<k, v>>, q1) = Occurrences(<<k, v>>, q2)

\* C16: a literal-url spec with strict query matching matches a request of
\* its method exactly when host and path are equal and the query parameters
\* are equal as a multiset of key/value pairs, whatever their order; with
\* query matching off the query strings of both urls are ignored and only
\* the part before the first "?" is compared.
C16_QueryMatching ==
    (/\ last.op = "matches"
     /\ last.spec.url.kind = "str"
     /\ last.spec.method = last.request.method
     /\ last.spec.match = <<>>) =>
        LET url == last.spec.url
            other == last.request.url
            samePart == url.host = other.host /\ url.path = other.path
        IN IF last.spec.match_querystring
           THEN last.result[1] <=>
                    (samePart /\ SameParams(url.query, other.query))
           ELSE last.result[1] <=> samePart

\* ?a=1&b=2 registered with strict matching has matched ?b=2&a=1
C16_Witness ==
    /\ last.op = "matches"
    /\ last.spec.match_querystring
    /\ last.spec.url.query = <<<<1, 1>>, <<2, 2>>>>
    /\ last.request.url.query = <<<<2, 2>>, <<1, 1>>>>
    /\ last.result = <<TRUE, "">>

\* C17: assert_call_count(url, n) succeeds exactly when n records of the
\* call list (answered, failed by a spec's exception or refused for no
\* match) have a request url equal to url with the default path applied;
\* otherwise it raises an AssertionError that reports url, the expected and
\* the actual count; either way registry and call list stay as they were.
C17_AssertCallCount ==
    [][last'.op = "assert_call_count" =>
        LET log == calls[last'.sess]
            url == last'.arg[1]
            n == last'.arg[2]
            actual == Cardinality({i \in 1..Len(log) :
                          log[i].request.url = WithDefaultPath(url)})
        IN /\ actual = n =>
                 last'.outcome = "return" /\ last'.result = TRUE
           /\ actual # n =>
                 /\ last'.outcome = "raise"
                 /\ last'.error = "AssertionError"
                 /\ last'.result = <<url, n, actual>>
           /\ matches' = matches
           /\ calls' = calls]_vars

\* assert_call_count('http://x', 2) has succeeded on a call list that holds
\* a request refused for no match and one failed by the spec's exception
C17_Witness ==
    /\ last.op = "assert_call_count"
    /\ last.outcome = "return"
    /\ last.arg = <<Lit("x", "", <<>>), 2>>
    /\ Len(calls[last.sess]) = 2
    /\ calls[last.sess][1].response.kind = "ConnectionError"
    /\ calls[last.sess][2].response.kind = "Exception"

\* the exception a spec yields: its body, what its callback returns, or the
\* body of the tuple its callback returns; NoResponse when it yields none
YieldedException(spec) ==
    IF spec.callback = "none" /\ spec.body = "exc"
    THEN SpecException("body")
    ELSE IF spec.callback = "returns_exc" THEN SpecException("result")
    ELSE IF spec.callback = "returns_body_exc"
         THEN SpecException("result body")
    ELSE NoResponse

\* C18: when the spec chosen for a request yields an exception, the
\* dispatch appends exactly one (request, exception) call, raises that
\* exception instead of returning a response, and adds one to the spec's
\* call_count.
C18_SpecExceptionRaised ==
    [][last'.op = "dispatch" =>
        LET s == last'.sess
            M == MatchingAt(matches[s], last'.request)
        IN \A i \in M :
             ((\A j \in M : i <= j)
                 /\ YieldedException(matches[s][i]) # NoResponse) =>
               LET exc == YieldedException(matches[s][i])
               IN /\ calls'[s] = Append(calls[s],
                         [request |-> last'.request, response |-> exc])
                  /\ last'.outcome = "raise"
                  /\ last'.response = exc
                  /\ last'.result = matches[s][i].call_count + 1
                  /\ ~last'.popped =>
                        matches'[s] = [matches[s] EXCEPT
                                          ![i].call_count = @ + 1]]_vars

\* a dispatch has raised the exception in the body a callback returned,
\* after one that raised the exception another callback returned
C18_Witness ==
    /\ last.op = "dispatch"
    /\ last.outcome = "raise"
    /\ last.response = SpecException("result body")
    /\ Len(calls[last.sess]) = 2
    /\ calls[last.sess][1].response = SpecException("result")
    /\ calls[last.sess][2].response = last.response

\* url starts with the literal prefix, or the pattern prefix matches it
StartsWith(url, prefix) ==
    IF prefix.kind = "re"
    THEN url.host = prefix.host
    ELSE /\ url.host = prefix.host
         /\ \/ prefix.path = "" /\ prefix.query = <<>>
            \/ /\ prefix.path = url.path
               /\ \E n \in 0..Len(url.query) :
                     prefix.query = SubSeq(url.query, 1, n)

\* C19: the passthru prefixes are consulted only when no registered spec
\* matches: a matched request is answered by the mock even when a prefix
\* covers its url; an unmatched request whose url starts with a literal
\* prefix, or is matched by a pattern prefix, is forwarded and leaves the
\* registry, the call counts and the call list unchanged.
C19_PassthruOnlyWhenUnmatched ==
    [][last'.op = "dispatch" =>
        LET s == last'.sess
            M == MatchingAt(matches[s], last'.request)
            covered == \E k \in 1..Len(passthru_prefixes[s]) :
                          StartsWith(last'.request.url,
                                     passthru_prefixes[s][k])
        IN /\ M # {} =>
                 /\ last'.outcome # "passthru"
                 /\ last'.index \in M
                 /\ Len(calls'[s]) = Len(calls[s]) + 1
                 /\ calls'[s][Len(calls'[s])].response = last'.response
           /\ (M = {} /\ covered) =>
                 /\ last'.outcome = "passthru"
                 /\ matches' = matches
                 /\ calls' = calls
           /\ (M = {} /\ ~covered) => last'.outcome = "raise"]_vars

\* a dispatch has been answered by a registered spec, and recorded,
\* although a passthru prefix covers the request's url
C19_Witness ==
    /\ last.op = "dispatch"
    /\ last.outcome = "return"
    /\ last.response.kind = "Response"
    /\ \E k \in 1..Len(passthru_prefixes[last.sess]) :
          StartsWith(last.request.url, passthru_prefixes[last.sess][k])
    /\ calls[last.sess] =
          <<[request |-> last.request, response |-> last.response]>>

\* C20 (as stated): json_params_matcher(expected) never raises: for every
\* request body (None, text that is not JSON, bytes that are not utf-8,
\* valid JSON) it returns a boolean, false on every decoding failure and
\* true exactly when the decoded body equals expected, a None body matching
\* a None expectation only.
C20_JsonMatcherNeverRaises ==
    last.op = "json_matcher" =>
        LET expected == last.arg[1]
            body == last.arg[2]
            fails == \/ body.type = "bytes" /\ ~body.utf8
                     \/ /\ body.type # "NoneType"
                        /\ body.text \notin {"null", "{\"a\": 1}",
                                              "{\"a\": 2}"}
            decoded == IF body.type = "NoneType" \/ body.text = "null"
                       THEN "None"
                       ELSE IF body.text = "{\"a\": 1}" THEN "a1" ELSE "a2"
        IN /\ last.outcome = "return"
           /\ last.result \in BOOLEAN
           /\ last.result <=> (~fails /\ decoded = expected)

\* C21 (as stated): a spec chosen by one-shot consumption answers at most
\* one request in total, so its call_count is exactly 1 when it leaves the
\* registry.
C21_ConsumedSpecCountIsOne ==
    [][(last'.op = "dispatch" /\ last'.popped) => last'.result = 1]_vars

\* C21 (amended): a spec chosen by one-shot consumption answers the request
\* that consumes it and none after it: the dispatch that pops it adds one
\* to its call_count, whatever it counted as an only match before, and
\* takes it, and nothing else, out of the registry; every dispatch is
\* answered by an entry that is in the registry when it starts.
C21_ConsumedSpecLeaves ==
    [][(last'.op = "dispatch" /\ last'.index # 0) =>
        LET s == last'.sess
            ms == matches[s]
            i == last'.index
        IN /\ i \in 1..Len(ms)
           /\ last'.spec = ms[i]
           /\ last'.result = ms[i].call_count + 1
           /\ last'.popped =>
                 /\ Cardinality(MatchingAt(ms, last'.request)) >= 2
                 /\ Len(matches'[s]) = Len(ms) - 1
                 /\ \A k \in 1..Len(matches'[s]) :
                       matches'[s][k] = IF k < i THEN ms[k] ELSE ms[k + 1]]_vars

\* a spec has been consumed by the second request it answered
C21_Witness ==
    /\ last.op = "dispatch"
    /\ last.popped
    /\ last.index = 1
    /\ last.result = 2
    /\ matches[last.sess] # <<>>

\* C22: matches checks the method, then the url, then the body matchers and
\* returns the reason of the first stage that fails: a method that differs,
\* be it in case only, gives "Method does not match" whatever url and body
\* are; an equal method with a url that does not match gives "URL does not
\* match"; only when both pass does a failing body matcher give "Parameters
\* do not match"; the result is true exactly when the three stages pass,
\* and an empty matcher list passes the body stage.
C22_StagesInOrder ==
    last.op = "matches" =>
        LET spec == last.spec
            r == last.request
            samePart == /\ spec.url.host = r.url.host
                        /\ spec.url.path = r.url.path
            urlPasses ==
                IF spec.url.kind = "re" THEN spec.url.host = r.url.host
                ELSE IF spec.match_querystring
                     THEN samePart /\ SameParams(spec.url.query, r.url.query)
                     ELSE samePart
            bodyPasses ==
                \A i \in 1..Len(spec.match) : r.body = spec.match[i]
        IN /\ spec.method # r.method =>
                 last.result = <<FALSE, "Method does not match">>
           /\ (spec.method = r.method /\ ~urlPasses) =>
                 last.result = <<FALSE, "URL does not match">>
           /\ (spec.method = r.method /\ urlPasses /\ ~bodyPasses) =>
                 last.result = <<FALSE, "Parameters do not match">>
           /\ (spec.method = r.method /\ urlPasses /\ bodyPasses) =>
                 last.result = <<TRUE, "">>
           /\ (spec.method = r.method /\ urlPasses /\ spec.match = <<>>) =>
                 last.result = <<TRUE, "">>

\* a request whose method differs from the spec's in case only, and whose
\* url and body would fail too, has been refused for its method
C22_Witness ==
    /\ last.op = "matches"
    /\ last.spec.method = "GET"
    /\ last.request.method = "get"
    /\ last.spec.url.host # last.request.url.host
    /\ last.spec.match = <<"b1">>
    /\ last.request.body = "none"
    /\ last.result = <<FALSE, "Method does not match">>

\* the sum of call_count over the entries of a registry
RECURSIVE SumCallCount(_)
SumCallCount(ms) ==
    IF ms = <<>> THEN 0 ELSE Head(ms).call_count + SumCallCount(Tail(ms))

\* the calls that are not the ConnectionError of a request nothing matched
Accounted(log) ==
    Cardinality({i \in 1..Len(log) :
                    log[i].response.kind # "ConnectionError"})

\* the counts of the registered and the popped specs add up to the calls
\* that are not no-match errors
AccountingHolds ==
    \A s \in Sessions :
        SumCallCount(matches[s]) + consumed[s] = Accounted(calls[s])

\* a dispatch adds exactly one to the call_count of the spec that answers
\* it and leaves every other call_count alone; a dispatch that no spec
\* answers leaves them all alone
OneCountPerDispatch ==
    last'.op = "dispatch" =>
        LET s == last'.sess
            ms == matches[s]
            i == last'.index
        IN IF i = 0
           THEN matches' = matches /\ consumed' = consumed
           ELSE /\ last'.result = ms[i].call_count + 1
                /\ IF last'.popped
                   THEN /\ consumed'[s] = consumed[s] + last'.result
                        /\ \A k \in 1..Len(matches'[s]) :
                              \E j \in 1..Len(ms) :
                                  j # i /\ matches'[s][k] = ms[j]
                   ELSE /\ consumed' = consumed
                        /\ Len(matches'[s]) = Len(ms)
                        /\ \A k \in 1..Len(ms) :
                              matches'[s][k].call_count =
                                  ms[k].call_count + (IF k = i THEN 1 ELSE 0)

\* C23: in every state reached by registrations and dispatches since the
\* last reset, the call_count of the specs registered since then, those
\* popped by one-shot consumption included, adds up to the number of calls
\* in the call list that are not no-match errors; each dispatch changes the
\* call_count of at most one spec, by exactly one.
C23_CallAccounting ==
    []AccountingHolds /\ [][OneCountPerDispatch]_vars

\* two calls are accounted for by a popped spec and a spec still registered
C23_Witness ==
    /\ consumed["mock"] = 1
    /\ SumCallCount(matches["mock"]) = 1
    /\ Len(calls["mock"]) = 2
    /\ Accounted(calls["mock"]) = 2

\* the same spec, its call_count aside
SameSpec(a, b) == [a EXCEPT !.call_count = 0] = [b EXCEPT !.call_count = 0]

\* C24: a dispatch never consumes the last spec that matches its request:
\* after a dispatch of r that a spec answered the registry still holds a
\* spec matching r, so a dispatch of r that follows it at once is not
\* refused either; a dispatch takes at most one spec out of the registry
\* and neither adds nor reorders one.
C24_LastMatchStays ==
    [][last'.op = "dispatch" =>
        LET s == last'.sess
            ms == matches[s]
            after == matches'[s]
        IN /\ last'.index # 0 => MatchingAt(after, last'.request) # {}
           /\ (/\ last.op = "dispatch"
               /\ last.sess = s
               /\ last.index # 0
               /\ last.request = last'.request) => last'.index # 0
           /\ \E d \in 0..Len(ms) :
                 /\ Len(after) = IF d = 0 THEN Len(ms) ELSE Len(ms) - 1
                 /\ \A k \in 1..Len(after) :
                       SameSpec(after[k],
                                ms[IF d = 0 \/ k < d THEN k ELSE k + 1])]_vars

\* the request that consumed a spec has been repeated and answered by the
\* one matching spec that is left, which stays registered
C24_Witness ==
    /\ last.op = "dispatch"
    /\ last.index = 1
    /\ ~last.popped
    /\ consumed[last.sess] = 1
    /\ Len(calls[last.sess]) = 2
    /\ calls[last.sess][1].request = last.request
    /\ Len(matches[last.sess]) = 1
    /\ matches[last.sess][1].call_count = 1

\* C25 (as stated): stop() takes the hook off before it looks at the
\* teardown assertion: when stop() raises its AssertionError on a started
\* session, HTTPAdapter.send is no longer that session's hook and the
\* session is stopped, so it dispatches no later request.
C25_HookRemovedBeforeAssertion ==
    [][(IsStop(last'.op) /\ last'.outcome = "raise") =>
          /\ ~patcher'[last'.sess].started
          /\ send' # last'.sess]_vars

====
